---- MODULE Spec2Model ----
(***************************************************************************)
(* Model of src/test-long-transcription.py: a client that loads a WAV      *)
(* file, opens one websocket connection, sends a configuration handshake,  *)
(* runs a sender task (the Feeder) and a receiver task (the Collector)     *)
(* concurrently on one event loop, and then deduplicates the collected     *)
(* segments and writes a report.                                           *)
(*                                                                         *)
(* Every action is one stretch of code between two suspension points of    *)
(* the cooperative scheduler (an await), or one synchronous block of main. *)
(***************************************************************************)
EXTENDS Integers, Sequences, FiniteSets, TLC

(***************************************************************************)
(* Program constants and bounds                                            *)
(***************************************************************************)
CHUNK_DURATION_MS == 100

SAMPLE_RATE == 16000

\* int(SAMPLE_RATE * CHUNK_DURATION_MS / 1000)
chunk_samples == (SAMPLE_RATE * CHUNK_DURATION_MS) \div 1000

\* The audio buffer holds at most MaxChunks full frames plus a remainder.
MaxChunks == 2

\* The server delivers at most MaxMsgs inbound messages in a session.
MaxMsgs == 2

\* Longest ResultsLog the deduplication pass is applied to in SpecDedup.
MaxSegs == 3

\* A longer buffer, of LongChunks full frames, on which the progress cadence
\* of the sender is more than one send.
LongChunks == 25

\* Buffer lengths (in samples): exact multiples of the frame size, one sample
\* more, and one sample less than the next multiple; and the longer buffer.
AudioLens ==
    { k * chunk_samples + r : k \in 0..MaxChunks, r \in {0, 1, chunk_samples - 1} }
        \cup { LongChunks * chunk_samples }

(***************************************************************************)
(* Text: a string is a tuple of characters; " " is the only whitespace.    *)
(***************************************************************************)
RECURSIVE LStrip(_)
LStrip(t) == IF t # <<>> /\ Head(t) = " " THEN LStrip(Tail(t)) ELSE t

RECURSIVE RStrip(_)
RStrip(t) ==
    IF t # <<>> /\ t[Len(t)] = " " THEN RStrip(SubSeq(t, 1, Len(t) - 1)) ELSE t

\* str.strip()
Strip(t) == RStrip(LStrip(t))

(***************************************************************************)
(* Entries of a "segments" list.  shape: "dict" for a JSON object, "other" *)
(* for anything else (a string, a number).  tkind: the "text" key holds a  *)
(* string ("str"), is absent ("absent"), or holds a non-string ("nonstr"). *)
(* skind: "start"/"end" are numeric ("num", in hundredths of a second),    *)
(* absent, or not convertible by float() ("bad").                          *)
(***************************************************************************)
Seg(text, start, end) ==
    [shape |-> "dict", tkind |-> "str", text |-> text,
     skind |-> "num", start |-> start, end |-> end]

SegA     == Seg(<<"a">>, 204, 311)
SegAlate == Seg(<<" ", "a">>, 502, 608)
SegB     == Seg(<<"b", " ">>, 101, 203)
SegBlank == Seg(<<" ">>, 0, 52)
SegNoText == [Seg(<<>>, 311, 402) EXCEPT !.tkind = "absent"]
SegNoTimes == [Seg(<<"b">>, 0, 0) EXCEPT !.skind = "absent"]
SegBadTime == [Seg(<<"a", "b">>, 0, 0) EXCEPT !.skind = "bad"]
SegNonStr == [Seg(<<>>, 0, 0) EXCEPT !.tkind = "nonstr"]
SegNotDict == [Seg(<<>>, 0, 0) EXCEPT !.shape = "other"]

\* seg.get("text", "")  (defined for a dict whose text is a string or absent)
TextOf(seg) == IF seg.tkind = "str" THEN seg.text ELSE <<>>

\* seg is {start: number, end: number, text: string}
WellFormed(seg) == seg.shape = "dict" /\ seg.tkind = "str" /\ seg.skind = "num"

(***************************************************************************)
(* Inbound messages.  kind: "notjson" (json.loads raises), "scalar" (a     *)
(* JSON number: the membership test raises), "segments" (an object with a  *)
(* "segments" field), "message" (an object with a "message" field and no   *)
(* "segments" field), "other" (an object with neither field).              *)
(***************************************************************************)
Msg(kind, segsOK, segs, msgIsStr) ==
    [kind |-> kind, segsOK |-> segsOK, segs |-> segs, msgIsStr |-> msgIsStr]

SegmentsMsg(segs) == Msg("segments", TRUE, segs, TRUE)

MsgPool ==
    { Msg("notjson", TRUE, <<>>, TRUE),
      Msg("other", TRUE, <<>>, TRUE),
      Msg("message", TRUE, <<>>, TRUE),
      Msg("message", TRUE, <<>>, FALSE),
      Msg("segments", FALSE, <<>>, TRUE),
      SegmentsMsg(<<SegA>>),
      SegmentsMsg(<<SegB, SegAlate>>),
      SegmentsMsg(<<SegBlank, SegNotDict, SegA>>) }

\* Entries the deduplication pass is exercised on in SpecDedup.
SegPool ==
    { SegA, SegAlate, SegB, SegBlank, SegNoText, SegNoTimes, SegBadTime,
      SegNonStr, SegNotDict }

RECURSIVE SeqsUpTo(_, _)
SeqsUpTo(S, n) ==
    IF n = 0 THEN { <<>> }
    ELSE LET shorter == SeqsUpTo(S, n - 1)
         IN  shorter \cup { Append(s, x) : s \in shorter, x \in S }

(***************************************************************************)
(* Outbound messages                                                       *)
(***************************************************************************)
Config == [type |-> "config", offset |-> 0, len |-> 0]

\* chunk = audio_float32[i:i+chunk_samples] of a buffer of n samples
Chunk(i, n) ==
    [type |-> "audio", offset |-> i,
     len |-> IF i + chunk_samples <= n THEN chunk_samples ELSE n - i]

VARIABLES
    opc,              \* where main / run_transcription is
    audio,            \* "unread", "ok", "error": the outcome of wave.open / readframes
    audio_len,        \* len(audio_float32), in samples
    conn,             \* "none", "open", "closed"
    connects,         \* number of calls of websockets.connect
    caught,           \* the except clause of run_transcription has run
    closedAt,         \* chunks_sent when the peer closed the connection, else -1
    sent,             \* every message sent on the connection, in order
    total_chunks,
    chunks_sent,
    idx,              \* the sender's loop variable i
    spc,              \* where sender is
    statusLog,        \* the values of chunks_sent at which a status line was printed
    receive_done,     \* the asyncio.Event
    rpc,              \* where receiver is
    handled,          \* the messages ws.recv() has returned, in order
    results,
    last_text,
    segment_count,
    transcript_lines,
    report            \* the report file

vars ==
    << opc, audio, audio_len, conn, connects, caught, closedAt, sent,
       total_chunks, chunks_sent, idx, spc, statusLog, receive_done, rpc,
       handled, results, last_text, segment_count, transcript_lines, report >>

orchVars == << opc, audio, audio_len, connects, caught, transcript_lines, report >>
senderVars == << total_chunks, chunks_sent, idx, spc, statusLog, receive_done >>
receiverVars == << rpc, handled, results, last_text, segment_count >>

NoReport == [state |-> "none", unique |-> 0, body |-> <<>>]

Init ==
    /\ opc = "start"
    /\ audio = "unread"
    /\ audio_len = 0
    /\ conn = "none"
    /\ connects = 0
    /\ caught = FALSE
    /\ closedAt = -1
    /\ sent = <<>>
    /\ total_chunks = 0
    /\ chunks_sent = 0
    /\ idx = 0
    /\ spc = "idle"
    /\ statusLog = <<>>
    /\ receive_done = FALSE
    /\ rpc = "idle"
    /\ handled = <<>>
    /\ results = <<>>
    /\ last_text = <<>>
    /\ segment_count = 0
    /\ transcript_lines = <<>>
    /\ report = NoReport

(***************************************************************************)
(* run_transcription: load, connect, handshake, gather, leave              *)
(***************************************************************************)

\* LoadAudio with the load moved inside the try of line 56: a load error is
\* caught like a connection error and run_transcription returns.
LoadAudio_InsideTry ==
    /\ opc = "start"
    /\ \/ /\ audio' = "error"
          /\ opc' = "returned"
          /\ caught' = TRUE
          /\ UNCHANGED audio_len
       \/ \E n \in AudioLens :
            /\ audio' = "ok"
            /\ audio_len' = n
            /\ opc' = "connecting"
            /\ UNCHANGED caught
    /\ UNCHANGED << conn, connects, closedAt, sent, transcript_lines, report >>
    /\ UNCHANGED << total_chunks, chunks_sent, idx, spc, statusLog, receive_done >>
    /\ UNCHANGED << rpc, handled, results, last_text, segment_count >>

\* Lines 29-52.  wave.open / readframes either raise, and the exception leaves
\* run_transcription and main (the load is outside the try), or yield a buffer.
LoadAudio ==
    /\ opc = "start"
    /\ \/ /\ audio' = "error"
          /\ opc' = "load_error"
          /\ UNCHANGED audio_len
       \/ \E n \in AudioLens :
            /\ audio' = "ok"
            /\ audio_len' = n
            /\ opc' = "connecting"
    /\ UNCHANGED << conn, connects, caught, closedAt, sent, transcript_lines, report >>
    /\ UNCHANGED << senderVars, receiverVars >>

\* Lines 56-64 and 148-154.  websockets.connect either yields an open
\* connection or raises; the except clause logs and run_transcription returns.
Connect ==
    /\ opc = "connecting"
    /\ connects' = connects + 1
    /\ \/ /\ conn' = "open"
          /\ opc' = "handshake"
          /\ UNCHANGED caught
       \/ /\ opc' = "returned"
          /\ caught' = TRUE
          /\ UNCHANGED conn
    /\ UNCHANGED << audio, audio_len, closedAt, sent, transcript_lines, report >>
    /\ UNCHANGED << senderVars, receiverVars >>

\* SendConfig without the send of line 74: the tasks start on a connection
\* on which no handshake was sent.
SendConfig_NoHandshake ==
    /\ opc = "handshake"
    /\ total_chunks' = audio_len \div chunk_samples
    /\ chunks_sent' = 0
    /\ idx' = 0
    /\ spc' = "loop"
    /\ rpc' = "check"
    /\ opc' = "gather"
    /\ UNCHANGED << audio, audio_len, conn, connects, caught, closedAt, sent,
                    statusLog, receive_done, handled, results, last_text,
                    segment_count, transcript_lines, report >>

\* Lines 66-81 and 142-146.  The handshake is sent; then the counters are set
\* and gather() starts both tasks.  On a connection that has closed the send
\* raises ConnectionClosed, which leaves the async with.
SendConfig ==
    /\ opc = "handshake"
    /\ IF conn = "open"
       THEN /\ sent' = Append(sent, Config)
            /\ total_chunks' = audio_len \div chunk_samples
            /\ chunks_sent' = 0
            /\ idx' = 0
            /\ spc' = "loop"
            /\ rpc' = "check"
            /\ opc' = "gather"
            /\ UNCHANGED caught
       ELSE /\ opc' = "closing"
            /\ caught' = TRUE
            /\ UNCHANGED << sent, total_chunks, chunks_sent, idx, spc, rpc >>
    /\ UNCHANGED << audio, audio_len, conn, connects, closedAt, statusLog,
                    receive_done, handled, results, last_text, segment_count,
                    transcript_lines, report >>

\* Lines 143-146.  gather() returns when both tasks have returned.
GatherDone ==
    /\ opc = "gather"
    /\ spc = "done"
    /\ rpc = "done"
    /\ opc' = "closing"
    /\ UNCHANGED << audio, audio_len, conn, connects, caught, closedAt, sent,
                    transcript_lines, report >>
    /\ UNCHANGED << senderVars, receiverVars >>

\* Lines 143-149.  gather() (return_exceptions is not set) raises as soon as
\* one task has raised, without waiting for or cancelling the other one.
GatherRaise ==
    /\ opc = "gather"
    /\ spc = "raised"
    /\ opc' = "closing"
    /\ caught' = TRUE
    /\ UNCHANGED << audio, audio_len, conn, connects, closedAt, sent,
                    transcript_lines, report >>
    /\ UNCHANGED << senderVars, receiverVars >>

\* Lines 57-63 and 148-154.  Leaving the async with closes the connection
\* (an await: tasks still alive can run until it completes); then
\* run_transcription returns results.
ExitContext ==
    /\ opc = "closing"
    /\ conn' = "closed"
    /\ opc' = "returned"
    /\ UNCHANGED << audio, audio_len, connects, caught, closedAt, sent,
                    transcript_lines, report >>
    /\ UNCHANGED << senderVars, receiverVars >>

\* The peer, or the network, closes the connection.
PeerClose ==
    /\ opc \in {"handshake", "gather"}
    /\ conn = "open"
    /\ conn' = "closed"
    /\ closedAt' = chunks_sent
    /\ UNCHANGED << sent, orchVars, senderVars, receiverVars >>

\* The event loop runs a task only while the main coroutine is suspended:
\* in gather() or in the close of the connection.  From the return of
\* run_transcription to the end of main there is no await.
TasksScheduled == opc \in {"gather", "closing"}

(***************************************************************************)
(* sender (the Feeder)                                                     *)
(***************************************************************************)

\* Line 94: progress = chunks_sent * 100 // total_chunks divides by zero.
ProgressRaises(total) == total = 0

\* Line 95: chunks_sent % (total_chunks // 10 + 1) == 0
StatusDue(n, total) == n % (total \div 10 + 1) = 0

\* Line 86: range(0, len(audio_float32), chunk_samples) still yields i.
InRange(i, n) == i < n

\* Lines 86-104.  One iteration up to its await: the chunk is cut and sent.
\* On an open connection the send succeeds, the counter advances and the
\* progress is computed; on a closed one ConnectionClosed ends the loop.
SendChunk ==
    /\ TasksScheduled
    /\ spc = "loop"
    /\ InRange(idx, audio_len)
    /\ IF conn = "open"
       THEN /\ sent' = Append(sent, Chunk(idx, audio_len))
            /\ chunks_sent' = chunks_sent + 1
            /\ IF ProgressRaises(total_chunks)
               THEN /\ spc' = "raised"
                    /\ UNCHANGED statusLog
               ELSE /\ spc' = "pace"
                    /\ statusLog' =
                         IF StatusDue(chunks_sent', total_chunks)
                         THEN Append(statusLog, chunks_sent')
                         ELSE statusLog
       ELSE /\ spc' = "grace"
            /\ UNCHANGED << sent, chunks_sent, statusLog >>
    /\ UNCHANGED << total_chunks, idx, receive_done, conn, closedAt >>
    /\ UNCHANGED << orchVars, receiverVars >>

\* Lines 101 and 86.  The pacing sleep ends; the loop variable advances.
Pace ==
    /\ TasksScheduled
    /\ spc = "pace"
    /\ idx' = idx + chunk_samples
    /\ spc' = "loop"
    /\ UNCHANGED << total_chunks, chunks_sent, statusLog, receive_done, conn,
                    closedAt, sent >>
    /\ UNCHANGED << orchVars, receiverVars >>

\* FinishSending with receive_done.set() moved before the sleep of line 108.
FinishSending_SetsEarly ==
    /\ TasksScheduled
    /\ spc = "loop"
    /\ ~InRange(idx, audio_len)
    /\ spc' = "grace"
    /\ receive_done' = TRUE
    /\ UNCHANGED << total_chunks, chunks_sent, idx, statusLog, conn, closedAt,
                    sent >>
    /\ UNCHANGED << opc, audio, audio_len, connects, caught, transcript_lines,
                    report >>
    /\ UNCHANGED << rpc, handled, results, last_text, segment_count >>

\* Lines 86 and 106-108.  The range is exhausted: the grace period starts.
FinishSending ==
    /\ TasksScheduled
    /\ spc = "loop"
    /\ ~InRange(idx, audio_len)
    /\ spc' = "grace"
    /\ UNCHANGED << total_chunks, chunks_sent, idx, statusLog, receive_done,
                    conn, closedAt, sent >>
    /\ UNCHANGED << orchVars, receiverVars >>

\* Lines 108-109.  The grace period ends; the StopSignal is set.
GraceOver ==
    /\ TasksScheduled
    /\ spc = "grace"
    /\ receive_done' = TRUE
    /\ spc' = "done"
    /\ UNCHANGED << total_chunks, chunks_sent, idx, statusLog, conn, closedAt,
                    sent >>
    /\ UNCHANGED << orchVars, receiverVars >>

(***************************************************************************)
(* receiver (the Collector)                                                *)
(***************************************************************************)

\* ProcessSegs with the append of line 121 replaced by an insert at the front.
RECURSIVE ProcessSegs_Prepend(_, _)
ProcessSegs_Prepend(segs, st) ==
    IF segs = <<>> THEN st
    ELSE LET seg == Head(segs)
             appended == <<seg>> \o st.results
         IN  IF seg.shape # "dict" \/ seg.tkind = "nonstr"
             THEN [st EXCEPT !.results = appended, !.raised = TRUE]
             ELSE LET text == Strip(TextOf(seg))
                  IN  ProcessSegs_Prepend(Tail(segs),
                        IF text # <<>> /\ text # st.last_text
                        THEN [results |-> appended,
                              last_text |-> text,
                              segment_count |-> st.segment_count + 1,
                              raised |-> FALSE]
                        ELSE [st EXCEPT !.results = appended])

\* ProcessSegs with the append of line 121 moved under the test of line 123.
RECURSIVE ProcessSegs_SkipEmpty(_, _)
ProcessSegs_SkipEmpty(segs, st) ==
    IF segs = <<>> THEN st
    ELSE LET seg == Head(segs)
         IN  IF seg.shape # "dict" \/ seg.tkind = "nonstr"
             THEN [st EXCEPT !.raised = TRUE]
             ELSE LET text == Strip(TextOf(seg))
                  IN  ProcessSegs_SkipEmpty(Tail(segs),
                        IF text # <<>> /\ text # st.last_text
                        THEN [results |-> Append(st.results, seg),
                              last_text |-> text,
                              segment_count |-> st.segment_count + 1,
                              raised |-> FALSE]
                        ELSE st)

\* Lines 120-129.  The entries of a "segments" list, one after the other: each
\* is appended first; then its text is read, which raises on an entry that is
\* no dict or whose text is no string, and leaves the rest unprocessed.
RECURSIVE ProcessSegs(_, _)
ProcessSegs(segs, st) ==
    IF segs = <<>> THEN st
    ELSE LET seg == Head(segs)
             appended == Append(st.results, seg)
         IN  IF seg.shape # "dict" \/ seg.tkind = "nonstr"
             THEN [st EXCEPT !.results = appended, !.raised = TRUE]
             ELSE LET text == Strip(TextOf(seg))
                  IN  ProcessSegs(Tail(segs),
                        IF text # <<>> /\ text # st.last_text
                        THEN [results |-> appended,
                              last_text |-> text,
                              segment_count |-> st.segment_count + 1,
                              raised |-> FALSE]
                        ELSE [st EXCEPT !.results = appended])

\* Lines 117-132.  What handling one received message does to the Collector's
\* state, and whether it raises.
HandleMessage(m, st) ==
    CASE m.kind \in {"notjson", "scalar"} -> [st EXCEPT !.raised = TRUE]
      [] m.kind = "segments" ->
            IF m.segsOK THEN ProcessSegs(m.segs, st)
            ELSE [st EXCEPT !.raised = TRUE]
      [] m.kind = "message" -> [st EXCEPT !.raised = ~m.msgIsStr]
      [] OTHER -> st

\* AfterMessage with continue in place of the break of line 140.
AfterMessage_Continue(raised) == "check"

\* Lines 134-140 and 114: where the loop goes after a message.  An exception
\* in the handling is logged and ends the loop.
AfterMessage(raised) == IF raised THEN "done" ELSE "check"

\* Line 114.  The loop condition.
CheckStop ==
    /\ TasksScheduled
    /\ rpc = "check"
    /\ rpc' = IF receive_done THEN "done" ELSE "recv"
    /\ UNCHANGED << handled, results, last_text, segment_count, conn,
                    closedAt, sent >>
    /\ UNCHANGED << orchVars, senderVars >>

\* Lines 116-132 and 138-140.  ws.recv() returns a message within the timeout.
Receive ==
    /\ TasksScheduled
    /\ rpc = "recv"
    /\ conn = "open"
    /\ Len(handled) < MaxMsgs
    /\ \E m \in MsgPool :
         LET st == HandleMessage(m, [results |-> results,
                                      last_text |-> last_text,
                                      segment_count |-> segment_count,
                                      raised |-> FALSE])
         IN  /\ handled' = Append(handled, m)
             /\ results' = st.results
             /\ last_text' = st.last_text
             /\ segment_count' = st.segment_count
             /\ rpc' = AfterMessage(st.raised)
    /\ UNCHANGED << conn, closedAt, sent >>
    /\ UNCHANGED << orchVars, senderVars >>

\* Lines 116 and 134-135.  No message within 2 s: back to the loop condition.
ReceiveTimeout ==
    /\ TasksScheduled
    /\ rpc = "recv"
    /\ conn = "open"
    /\ rpc' = "check"
    /\ UNCHANGED << handled, results, last_text, segment_count, conn,
                    closedAt, sent >>
    /\ UNCHANGED << orchVars, senderVars >>

\* Lines 116 and 136-137.  ws.recv() raises ConnectionClosed: the loop ends.
ReceiveClosed ==
    /\ TasksScheduled
    /\ rpc = "recv"
    /\ conn = "closed"
    /\ rpc' = "done"
    /\ UNCHANGED << handled, results, last_text, segment_count, conn,
                    closedAt, sent >>
    /\ UNCHANGED << orchVars, senderVars >>

(***************************************************************************)
(* main: deduplication and report                                          *)
(***************************************************************************)

\* f"{x:.1f}": hundredths of a second rounded to tenths.  (The pools hold no
\* value halfway between two tenths, where the binary float decides.)
Fmt1(x) == (x + 5) \div 10

\* float(seg.get(key, 0)) for a convertible value
TimeOf(seg, key) ==
    IF seg.skind = "absent" THEN 0
    ELSE IF key = "start" THEN seg.start ELSE seg.end

\* Line 174: the transcript line of results[i].  src records i, the position
\* of the segment in results (the line itself holds no such field).
Line(seg, i, text) ==
    [src |-> i, start |-> Fmt1(TimeOf(seg, "start")),
     end |-> Fmt1(TimeOf(seg, "end")), text |-> text]

\* Keep without the membership test of line 170.
Keep_NoSeenCheck(text, seen_texts) == text # <<>>

\* Line 170: if text and text not in seen_texts
Keep(text, seen_texts) == text # <<>> /\ text \notin seen_texts

\* Lines 168-174, from results[i] on.  seg.get raises on an entry that is no
\* dict, .strip() on a text that is no string, float() on a bad time.
RECURSIVE DedupFrom(_, _, _, _)
DedupFrom(res, i, seen_texts, lines) ==
    IF i > Len(res) THEN [lines |-> lines, raised |-> FALSE]
    ELSE LET seg == res[i]
         IN  IF seg.shape # "dict" \/ seg.tkind = "nonstr"
             THEN [lines |-> lines, raised |-> TRUE]
             ELSE LET text == Strip(TextOf(seg))
                  IN  IF Keep(text, seen_texts)
                      THEN IF seg.skind = "bad"
                           THEN [lines |-> lines, raised |-> TRUE]
                           ELSE DedupFrom(res, i + 1, seen_texts \cup {text},
                                          Append(lines, Line(seg, i, text)))
                      ELSE DedupFrom(res, i + 1, seen_texts, lines)

RECURSIVE InsertByStart(_, _)
InsertByStart(line, sorted) ==
    IF sorted = <<>> THEN <<line>>
    ELSE IF line.start < Head(sorted).start THEN <<line>> \o sorted
    ELSE <<Head(sorted)>> \o InsertByStart(line, Tail(sorted))

RECURSIVE SortByStart(_)
SortByStart(lines) ==
    IF lines = <<>> THEN <<>>
    ELSE InsertByStart(Head(lines), SortByStart(Tail(lines)))

\* CompileTranscript followed by a sort of the lines by start time.
CompileTranscript_Sorted(res) ==
    LET out == DedupFrom(res, 1, {}, <<>>)
    IN  [out EXCEPT !.lines = SortByStart(out.lines)]

\* Lines 165-176.
CompileTranscript(res) == DedupFrom(res, 1, {}, <<>>)

\* Lines 163-176.  The deduplication pass of main; an exception in it leaves
\* main before the report file is opened.
Deduplicate ==
    /\ opc = "returned"
    /\ LET out == CompileTranscript(results)
       IN  IF out.raised
           THEN /\ opc' = "post_error"
                /\ UNCHANGED transcript_lines
           ELSE /\ opc' = "writing"
                /\ transcript_lines' = out.lines
    /\ UNCHANGED << audio, audio_len, conn, connects, caught, closedAt, sent,
                    report >>
    /\ UNCHANGED << senderVars, receiverVars >>

\* Line 34: duration = n_frames / sample_rate is zero for an empty buffer.
ZeroDuration(n) == n = 0

\* Lines 178-192.  The file is opened for writing and the header written line
\* by line; line 189 divides by the audio duration, so for an empty buffer
\* the exception leaves main with the file cut off before the count line.
WriteReport ==
    /\ opc = "writing"
    /\ IF ZeroDuration(audio_len)
       THEN /\ report' = [state |-> "partial", unique |-> 0, body |-> <<>>]
            /\ opc' = "write_error"
       ELSE /\ report' = [state |-> "complete",
                          unique |-> Len(transcript_lines),
                          body |-> transcript_lines]
            /\ opc' = "done"
    /\ UNCHANGED << audio, audio_len, conn, connects, caught, closedAt, sent,
                    transcript_lines >>
    /\ UNCHANGED << senderVars, receiverVars >>

(***************************************************************************)
(* Specifications                                                          *)
(***************************************************************************)
Next ==
    \/ LoadAudio
    \/ Connect
    \/ SendConfig
    \/ GatherDone
    \/ GatherRaise
    \/ ExitContext
    \/ PeerClose
    \/ SendChunk
    \/ Pace
    \/ FinishSending
    \/ GraceOver
    \/ CheckStop
    \/ Receive
    \/ ReceiveTimeout
    \/ ReceiveClosed
    \/ Deduplicate
    \/ WriteReport

Spec == Init /\ [][Next]_vars

\* The steps of the main coroutine, of the sender task and of the receiver
\* task.  The event loop runs every coroutine that is ready, and every sleep,
\* bounded receive and send ends: each of the three is scheduled with weak
\* fairness.  The peer's closing the connection is not.
MainStep ==
    \/ LoadAudio
    \/ Connect
    \/ SendConfig
    \/ GatherDone
    \/ GatherRaise
    \/ ExitContext
    \/ Deduplicate
    \/ WriteReport

SenderStep == SendChunk \/ Pace \/ FinishSending \/ GraceOver

ReceiverStep == CheckStop \/ Receive \/ ReceiveTimeout \/ ReceiveClosed

FairSpec ==
    /\ Spec
    /\ WF_vars(MainStep)
    /\ WF_vars(SenderStep)
    /\ WF_vars(ReceiverStep)

\* The ResultsLog a session can return: the Collector stops at the first entry
\* whose text it cannot read, so such an entry can only be the last one.
ReturnedLogs ==
    { s \in SeqsUpTo(SegPool, MaxSegs) :
        \A i \in 1..(Len(s) - 1) : s[i].shape = "dict" /\ s[i].tkind # "nonstr" }

\* main at the return of run_transcription, after a session on an open
\* connection in which the whole buffer (empty, or one frame) was sent and the
\* server delivered the log in one message.
InitDedup ==
    \E s \in ReturnedLogs, n \in {0, chunk_samples} :
        LET st == ProcessSegs(s, [results |-> <<>>, last_text |-> <<>>,
                                  segment_count |-> 0, raised |-> FALSE])
        IN  /\ opc = "returned"
            /\ audio = "ok"
            /\ audio_len = n
            /\ conn = "closed"
            /\ connects = 1
            /\ caught = FALSE
            /\ closedAt = -1
            /\ sent = IF n = 0 THEN <<Config>> ELSE <<Config, Chunk(0, n)>>
            /\ total_chunks = n \div chunk_samples
            /\ chunks_sent = n \div chunk_samples
            /\ idx = n
            /\ spc = "done"
            /\ statusLog = IF n = 0 THEN <<>> ELSE <<1>>
            /\ receive_done = TRUE
            /\ rpc = "done"
            /\ handled = IF s = <<>> THEN <<>> ELSE <<SegmentsMsg(s)>>
            /\ results = s
            /\ last_text = st.last_text
            /\ segment_count = st.segment_count
            /\ transcript_lines = <<>>
            /\ report = NoReport

NextDedup ==
    \/ Deduplicate
    \/ WriteReport

SpecDedup == InitDedup /\ [][NextDedup]_vars

(***************************************************************************)
(* Properties                                                              *)
(***************************************************************************)
ConfigsSent == { i \in DOMAIN sent : sent[i].type = "config" }

FramesSent == { i \in DOMAIN sent : sent[i].type = "audio" }

\* main has gone past the return of run_transcription into its own pass.
PostStarted == opc \in {"writing", "post_error", "write_error", "done"}

\* main has ended, normally or by an exception.
MainEnded == opc \in {"load_error", "post_error", "write_error", "done"}

\* seg.get("text", "").strip()
NormText(seg) == Strip(TextOf(seg))

\* The positions in results of the first occurrence of each non-empty text.
FirstSeen ==
    { i \in DOMAIN results :
        /\ NormText(results[i]) # <<>>
        /\ \A j \in 1..(i - 1) : NormText(results[j]) # NormText(results[i]) }

\* Handling m raises (the outcome does not depend on the Collector's state).
Raises(m) ==
    HandleMessage(m, [results |-> <<>>, last_text |-> <<>>,
                      segment_count |-> 0, raised |-> FALSE]).raised

\* C1: the configuration handshake is sent exactly once and before the first
\* audio frame: at most one configuration message is ever sent, every audio
\* frame sent is preceded by it, and once the tasks exist it is the first and
\* only configuration message on the connection.
C1_HandshakeOnceBeforeAudio ==
    /\ Cardinality(ConfigsSent) <= 1
    /\ \A i \in FramesSent : \E j \in 1..(i - 1) : sent[j] = Config
    /\ spc # "idle" => ConfigsSent = {1}

C1_Witness == Cardinality(FramesSent) >= 2 /\ sent[1] = Config

\* C2: join barrier.  The post-processing of main has begun only if the
\* sender and the receiver, when they were started, have both terminated.
C2_JoinBarrier ==
    PostStarted =>
        \/ spc = "idle" /\ rpc = "idle"
        \/ spc \in {"done", "raised"} /\ rpc = "done"

\* C3: frame slicing.  When the sender has left its loop on a connection the
\* peer never closed, it has sent exactly floor(L / F) frames, each of F
\* samples, consecutive and non-overlapping.
C3_FrameSlicing ==
    (spc \in {"grace", "done", "raised"} /\ closedAt = -1) =>
        /\ Cardinality(FramesSent) = audio_len \div chunk_samples
        /\ \A i \in FramesSent :
             /\ sent[i].len = chunk_samples
             /\ sent[i].offset = (i - 2) * chunk_samples

\* The transcript lines whose text is t.
LinesWith(t) == { k \in DOMAIN report.body : report.body[k].text = t }

\* C4 as stated: of a log of well-formed segments the report retains, for each
\* distinct normalized text occurring in it, exactly one record, the
\* first-seen one, in receipt order, and the header count is the number of
\* retained records.
C4_DedupEveryText ==
    (report.state = "complete" /\ \A i \in DOMAIN results : WellFormed(results[i])) =>
        /\ \A i \in DOMAIN results :
             Cardinality(LinesWith(NormText(results[i]))) = 1
        /\ \A k \in DOMAIN report.body : report.body[k].src \in FirstSeen
        /\ \A k, l \in DOMAIN report.body :
             k < l => report.body[k].src < report.body[l].src
        /\ report.unique = Len(report.body)

\* C4 amended: the report retains, for each distinct NON-EMPTY normalized text
\* occurring in the log, exactly one record, the first-seen one, with that
\* record's times, in receipt order; a later segment with a text already seen
\* is dropped whatever its times; a segment whose text is empty after
\* stripping is never retained; the header count is the number of retained
\* records.
C4_DedupNonEmptyText ==
    report.state = "complete" =>
        /\ \A i \in DOMAIN results :
             Cardinality(LinesWith(NormText(results[i]))) =
                 IF NormText(results[i]) = <<>> THEN 0 ELSE 1
        /\ \A k \in DOMAIN report.body :
             LET line == report.body[k]
             IN  /\ line.src \in FirstSeen
                 /\ line.text = NormText(results[line.src])
                 /\ line.start = Fmt1(TimeOf(results[line.src], "start"))
                 /\ line.end = Fmt1(TimeOf(results[line.src], "end"))
        /\ \A k, l \in DOMAIN report.body :
             k < l => report.body[k].src < report.body[l].src
        /\ report.unique = Len(report.body)

\* A report of two lines from a log that repeats a text with other times.
C4_Witness ==
    /\ report.state = "complete"
    /\ Len(report.body) = 2
    /\ \E i, j \in DOMAIN results :
         /\ i < j
         /\ NormText(results[i]) = NormText(results[j])
         /\ NormText(results[i]) # <<>>
         /\ results[i].text # results[j].text
         /\ results[i].start # results[j].start

\* The closure is mid-stream: the peer closed the connection when K frames
\* had been sent and K is less than the total.
ClosedMidStream == closedAt >= 0 /\ closedAt < total_chunks

\* C5: after a mid-stream closure at K frames no further frame is sent, the
\* sent count stays K, the sender does not raise and has set the StopSignal
\* when it is done, and main ends normally with a complete report.
C5_MidStreamClosure ==
    ClosedMidStream =>
        /\ chunks_sent = closedAt
        /\ Cardinality(FramesSent) = closedAt
        /\ spc # "raised"
        /\ spc = "done" => receive_done
        /\ MainEnded => opc = "done" /\ report.state = "complete"

\* C6: a session of a loaded audio buffer that ends with no segment received
\* ends normally, with a complete report of count 0 and an empty body.
C6_EmptyResult ==
    (audio = "ok" /\ results = <<>> /\ MainEnded) =>
        /\ opc = "done"
        /\ report = [state |-> "complete", unique |-> 0, body |-> <<>>]

\* C7: connection failures.  The connection is opened at most once; when an
\* exception was caught in run_transcription, main ends normally with a
\* complete report compiled from the segments in ResultsLog.
C7_ConnectionFailure ==
    /\ connects <= 1
    /\ (caught /\ MainEnded) =>
         /\ opc = "done"
         /\ report.state = "complete"
         /\ report.body = CompileTranscript(results).lines

\* C8 as stated: a step in which the Collector receives a malformed message
\* (its handling raises) leaves the receive loop running.
C8_MalformedSkipped ==
    [][(Len(handled') = Len(handled) + 1 /\ Raises(handled'[Len(handled')]))
          => rpc' = "check"]_vars

\* C8 amended: a malformed message (its handling raises) ends the receive
\* loop: it is the last message the Collector ever receives, so no message
\* arriving after it reaches ResultsLog.
C8_MalformedEndsLoop ==
    \A i \in DOMAIN handled :
        Raises(handled[i]) => i = Len(handled) /\ rpc = "done"

\* The loop has ended on a malformed message with the connection open and
\* the StopSignal unset, after a well-formed message had been handled.
C8_Witness ==
    /\ Len(handled) = 2
    /\ Raises(handled[2])
    /\ rpc = "done"
    /\ conn = "open"
    /\ ~receive_done

\* C9: a failed load of the audio file ends main by the exception, with no
\* connection opened, no message sent, nothing caught and no report written;
\* and no connection is ever attempted before the audio is loaded.
C9_LoadErrorFatal ==
    /\ audio = "error" =>
         /\ opc = "load_error"
         /\ conn = "none"
         /\ connects = 0
         /\ sent = <<>>
         /\ ~caught
         /\ report = NoReport
    /\ connects > 0 => audio = "ok"

C9_Witness == audio = "error" /\ opc = "load_error"

\* The start time (as received) of the segment behind transcript line k.
StartOfLine(k) == TimeOf(results[report.body[k].src], "start")

BodyTimeOrdered ==
    \A k, l \in DOMAIN report.body : k < l => StartOfLine(k) <= StartOfLine(l)

\* C10 as stated: the lines of the report are in non-decreasing order of
\* segment start time.
C10_TimeOrdered == report.state = "complete" => BodyTimeOrdered

\* C10 amended: the lines of the report are in receipt order, not time order:
\* line k is the k-th first-seen segment of the log, so the lines are in
\* non-decreasing start time exactly when the first-seen segments were
\* received in that order.
C10_ReceiptOrder ==
    report.state = "complete" =>
        /\ { report.body[k].src : k \in DOMAIN report.body } = FirstSeen
        /\ \A k \in DOMAIN report.body :
             Cardinality({ i \in FirstSeen : i <= report.body[k].src }) = k
        /\ BodyTimeOrdered <=>
             \A i, j \in FirstSeen :
                 i < j => TimeOf(results[i], "start") <= TimeOf(results[j], "start")

\* A report whose second line starts before its first line.
C10_Witness ==
    /\ report.state = "complete"
    /\ Len(report.body) >= 2
    /\ StartOfLine(2) < StartOfLine(1)

\* The Collector has left its loop on an exception in the handling of the
\* last message it received.
ExitedByException ==
    rpc = "done" /\ handled # <<>> /\ Raises(handled[Len(handled)])

\* C11: the receive loop ends only (1) at the loop condition with the
\* StopSignal set, (2) on a receive on a closed connection, or (3) on a
\* message whose handling raises; a receive timeout leads back to the loop
\* condition and changes neither ResultsLog nor the StopSignal; and when the
\* loop has ended and main has ended, main has ended normally with a
\* complete report.
C11_CollectorExits ==
    [][/\ (rpc # "done" /\ rpc' = "done") =>
            \/ rpc = "check" /\ receive_done
            \/ rpc = "recv" /\ conn = "closed" /\ handled' = handled
            \/ /\ rpc = "recv"
               /\ Len(handled') = Len(handled) + 1
               /\ Raises(handled'[Len(handled')])
       /\ (rpc = "recv" /\ rpc' # rpc /\ handled' = handled /\ conn = "open") =>
            /\ rpc' = "check"
            /\ results' = results
            /\ receive_done' = receive_done
       /\ (rpc' = "done" /\ opc' \in {"post_error", "write_error", "done"}) =>
            /\ opc' = "done"
            /\ report'.state = "complete"
      ]_vars

\* C12: the StopSignal is a single-fire latch.  It is set only in the step in
\* which the sender ends its grace period and returns, so it is unset as long
\* as the sender has not returned; the sender, once returned, never runs
\* again, so it is set at most once; and once set it stays set.
C12_StopSignalLatch ==
    [][/\ receive_done => receive_done'
       /\ receive_done' => spc' = "done"
       /\ (~receive_done /\ receive_done') => (spc = "grace" /\ spc' = "done")
       /\ spc = "done" => spc' = "done"
      ]_vars

\* The StopSignal is set and has ended the receive loop on an open connection.
C12_Witness ==
    /\ receive_done
    /\ spc = "done"
    /\ rpc = "done"
    /\ closedAt = -1
    /\ ~ExitedByException

\* C13: session termination under fair scheduling.  Once the connection is
\* established and the two tasks are started on it, eventually both tasks
\* have returned (the sender having set the StopSignal) and the report is
\* written; and with the StopSignal set the receiver, at its loop condition,
\* starts no further receive.
C13_Termination ==
    /\ (opc = "gather") ~>
          (spc = "done" /\ receive_done /\ rpc = "done" /\ report.state = "complete")
    /\ [][(receive_done /\ rpc = "check") => rpc' \in {"check", "done"}]_vars

\* s is t with zero or more elements appended.
IsExtension(s, t) == Len(t) <= Len(s) /\ SubSeq(s, 1, Len(t)) = t

\* C14: ResultsLog is append-only with a single writer.  Every step leaves
\* results as it is or appends to it, and a step that changes it is the
\* Collector's handling of a received message: not a step of the Feeder, of
\* run_transcription or of main's post-processing.
C14_AppendOnly ==
    [][/\ IsExtension(results', results)
       /\ results' # results =>
            /\ rpc = "recv"
            /\ Len(handled') = Len(handled) + 1
            /\ handled'[Len(handled')].kind = "segments"
            /\ UNCHANGED << opc, spc, sent, chunks_sent, receive_done,
                            transcript_lines, report >>
      ]_vars

\* Two messages have each appended to the log, and the report is written.
C14_Witness ==
    /\ Len(handled) = 2
    /\ Len(results) = 3
    /\ handled[1].segs # <<>>
    /\ handled[2].segs # <<>>
    /\ opc = "done"

\* The entries of a segments list up to and including the first one whose
\* text cannot be read (one that is no record, or whose text is no string).
RECURSIVE ReadablePrefix(_)
ReadablePrefix(segs) ==
    IF segs = <<>> THEN <<>>
    ELSE IF Head(segs).shape = "dict" /\ Head(segs).tkind \in {"str", "absent"}
         THEN <<Head(segs)>> \o ReadablePrefix(Tail(segs))
         ELSE <<Head(segs)>>

AllEntries(m) ==
    IF m.kind = "segments" /\ m.segsOK THEN m.segs ELSE <<>>

EntriesRead(m) ==
    IF m.kind = "segments" /\ m.segsOK THEN ReadablePrefix(m.segs) ELSE <<>>

\* The concatenation of the segment lists of the messages msgs.
RECURSIVE ConcatAll(_)
ConcatAll(msgs) ==
    IF msgs = <<>> THEN <<>>
    ELSE AllEntries(Head(msgs)) \o ConcatAll(Tail(msgs))

\* The same, of the part of each list that was read.
RECURSIVE ConcatRead(_)
ConcatRead(msgs) ==
    IF msgs = <<>> THEN <<>>
    ELSE EntriesRead(Head(msgs)) \o ConcatRead(Tail(msgs))

\* C15 as stated: ResultsLog is the concatenation, in receipt order, of the
\* whole segment lists of all handled records with a "segments" field;
\* records with only a "message" field or with neither contribute nothing.
C15_AllEntriesAppended == results = ConcatAll(handled)

\* C15 amended: ResultsLog is the concatenation, in receipt order, of the
\* segment lists of all handled records with a "segments" field, each list
\* taken up to and including its first entry whose text cannot be read
\* (empty-text and duplicate entries included); records with only a
\* "message" field or with neither contribute nothing; and the handling of a
\* record goes through without raising, so that the loop continues, exactly
\* for a record with neither field, one with a string "message", and one
\* whose segment list holds only entries with a readable text.
C15_ReadableEntriesAppended ==
    /\ results = ConcatRead(handled)
    /\ \A i \in DOMAIN handled :
         (handled[i].kind \in {"other"}
             \/ (handled[i].kind = "message" /\ handled[i].msgIsStr)
             \/ (handled[i].kind = "segments" /\ handled[i].segsOK
                   /\ \A k \in DOMAIN handled[i].segs :
                        handled[i].segs[k].shape = "dict"
                        /\ handled[i].segs[k].tkind # "nonstr"))
           <=> ~Raises(handled[i])

\* Two segment records were handled: the log holds a repeated text.
C15_Witness ==
    /\ Len(handled) = 2
    /\ handled[1].kind = "segments"
    /\ handled[2].kind = "segments"
    /\ Len(results) = 3
    /\ \E i, j \in DOMAIN results :
         i < j /\ NormText(results[i]) = NormText(results[j])

\* C16: progress reporting is a side effect only.  A step in which a frame is
\* sent leaves the sender where it would be without the progress lines - at
\* its pacing sleep, with the loop, the grace period and the StopSignal still
\* ahead - and changes neither the StopSignal nor ResultsLog; the sender
\* never ends by an exception.
C16_ProgressSideEffectOnly ==
    [][/\ (Len(sent') = Len(sent) + 1 /\ sent'[Len(sent')].type = "audio") =>
            /\ spc' = "pace"
            /\ receive_done' = receive_done
            /\ results' = results
       /\ spc' # "raised"
      ]_vars

\* C17: with T = total_chunks, a status line was printed after the n-th
\* successful send exactly for the n with n mod (T div 10 + 1) = 0.
C17_ProgressCadence ==
    \A n \in 1..chunks_sent :
        (\E k \in DOMAIN statusLog : statusLog[k] = n)
            <=> (n % ((total_chunks \div 10) + 1) = 0)

\* The number of values of range(0, n, chunk_samples).
LoopIterations(n) == (n + chunk_samples - 1) \div chunk_samples

\* C18: the Feeder does not depend on the Collector.  Once the Collector has
\* left its loop on an exception, ResultsLog no longer changes, the sender
\* does not end by an exception, a sender that has returned on a connection
\* the peer never closed has sent every frame of its loop and set the
\* StopSignal, and main, when it has ended, has ended normally with a complete
\* report.
C18_FeederIndependent ==
    [][ExitedByException =>
          /\ results' = results
          /\ spc' # "raised"
          /\ (spc' = "done" /\ closedAt' = -1) =>
                /\ Len(sent') = 1 + LoopIterations(audio_len)
                /\ receive_done'
          /\ opc' \in {"post_error", "write_error", "done"} =>
                /\ opc' = "done"
                /\ report'.state = "complete"
      ]_vars

\* C19: the report is produced whatever the server sends.  For an audio
\* buffer of at least one full frame (a shorter one ends the sender at line
\* 94, an empty one main at line 189, whatever was received), every log that
\* run_transcription returns goes through the deduplication pass without an
\* exception, and main, once ended, has written the report.
C19_ReportWhateverReceived ==
    (audio = "ok" /\ audio_len >= chunk_samples) =>
        /\ opc # "post_error"
        /\ PostStarted => ~CompileTranscript(results).raised
        /\ MainEnded => report.state = "complete"

====
